---- MODULE Spec2Model ----
(***************************************************************************)
(* Finite-difference operator assembly of the course notebooks:            *)
(*   first_deriv_matrix      (02 Absolute Stability Examples.ipynb)        *)
(*   first_deriv_matrix_per  (04 The Need for High-Order Methods.ipynb)    *)
(*   the 2-D Poisson assembly cells (2d_elliptic_fd/Basics.ipynb)          *)
(* Python lists are sequences; the element at Python index q is s[q+1].    *)
(* Floating-point values are modelled by exact rationals <<num, den>>.     *)
(***************************************************************************)
EXTENDS Integers, Sequences, FiniteSets, TLC

\* ------------------------------------------------------------------ bounds
\* grid coordinates of first_deriv_matrix are drawn from 0..MaxCoord
MaxCoord == 6
\* stencil half-widths are drawn from 0..MaxW
MaxW == 2
\* the periodic spacing dx is drawn from 1..MaxDx
MaxDx == 2
\* the periodic point count n is drawn from -1..MaxPerN
MaxPerN == 6
\* the Poisson grid has 2..MaxN points per direction
MaxN == 4
\* the Poisson domain extents x_u - x_l and y_u - y_l are drawn from 1..MaxExtent
MaxExtent == 2
\* the grids of periodic_grid have up to MaxGridN points on a period of up to
\* MaxPeriod
MaxGridN == 5
MaxPeriod == 2
\* num_iter of the forward-Euler loop
MaxSteps == 2
\* the nodes of a direct fd_coeff call are drawn from 0..MaxNode, and the
\* derivative order from 0..MaxNode
MaxNode == 4

\* ------------------------------------------------------- exact arithmetic
Abs(a) == IF a < 0 THEN -a ELSE a

RECURSIVE Gcd(_, _)
Gcd(a, b) == IF b = 0 THEN a ELSE Gcd(b, a % b)

\* the rational num/den in lowest terms with a positive denominator
Rat(num, den) ==
    LET s == IF den < 0 THEN -1 ELSE 1
        g == Gcd(Abs(num), Abs(den))
    IN  <<(s * num) \div g, (s * den) \div g>>

Zero == <<0, 1>>
One == <<1, 1>>
FromInt(k) == <<k, 1>>
RAdd(a, b) == Rat(a[1] * b[2] + b[1] * a[2], a[2] * b[2])
RNeg(a) == <<-a[1], a[2]>>
RSub(a, b) == RAdd(a, RNeg(b))
RMul(a, b) == Rat(a[1] * b[1], a[2] * b[2])
RDiv(a, b) == Rat(a[1] * b[2], a[2] * b[1])

RECURSIVE Factorial(_)
Factorial(d) == IF d <= 0 THEN 1 ELSE d * Factorial(d - 1)

\* ------------------------------------------------------- Python list idiom
\* range(a, b) as a list
PyRange(a, b) == [q \in 1..(IF b > a THEN b - a ELSE 0) |-> a + q - 1]

\* s[a:b] with b >= 0: a negative start counts from the end, both ends clip
PySlice(s, a, b) ==
    LET len == Len(s)
        lo0 == IF a < 0 THEN a + len ELSE a
        lo == IF lo0 < 0 THEN 0 ELSE IF lo0 > len THEN len ELSE lo0
        hi == IF b > len THEN len ELSE b
    IN  IF hi <= lo THEN <<>> ELSE [q \in 1..(hi - lo) |-> s[lo + q]]

\* s[q] raises IndexError outside -len..len-1
PyIndexFails(s, q) == q >= Len(s) \/ q < -Len(s)
PyIndex(s, q) == IF q < 0 THEN s[Len(s) + q + 1] ELSE s[q + 1]

\* p*[i]
PyRepeat(p, v) == [q \in 1..p |-> v]

\* ------------------------------------------------------------- fd_coeff
\* P(t) * (t - a), polynomials as coefficient lists (lowest degree first)
PolyTimesLinear(P, a) ==
    [k \in 1..(Len(P) + 1) |->
        RSub(IF k = 1 THEN Zero ELSE P[k - 1],
             IF k > Len(P) THEN Zero ELSE RMul(a, P[k]))] \o <<>>

\* prod over m /= j of (t - off[m])
RECURSIVE NodePoly(_, _, _)
NodePoly(off, j, m) ==
    IF m = 0 THEN <<One>>
    ELSE IF m = j THEN NodePoly(off, j, m - 1)
    ELSE PolyTimesLinear(NodePoly(off, j, m - 1), off[m])

\* prod over m /= j of (off[j] - off[m])
RECURSIVE NodeDenom(_, _, _)
NodeDenom(off, j, m) ==
    IF m = 0 THEN One
    ELSE IF m = j THEN NodeDenom(off, j, m - 1)
    ELSE RMul(NodeDenom(off, j, m - 1), RSub(off[j], off[m]))

\* fd_coeff reports an error for fewer than d+1 nodes or coincident nodes
fd_coeff_fails(d, x0, nodes) ==
    \/ Len(nodes) < d + 1
    \/ \E a, b \in 1..Len(nodes) : a /= b /\ nodes[a] = nodes[b]

\* the weights c with sum c[j] f(nodes[j]) = f^(d)(x0), exact on polynomials
\* of degree < Len(nodes): d! times the t^d coefficient of the j-th Lagrange
\* basis polynomial written in the offsets t = x - x0
fd_coeff(d, x0, nodes) ==
    LET off == [m \in 1..Len(nodes) |-> RSub(nodes[m], x0)] \o <<>>
    IN  [j \in 1..Len(nodes) |->
            RDiv(RMul(FromInt(Factorial(d)),
                      NodePoly(off, j, Len(nodes))[d + 1]),
                 NodeDenom(off, j, Len(nodes)))] \o <<>>

\* ------------------------------------------------- scipy.sparse constructor
\* sp.csr_matrix((data, (I, J))) / sp.csc_matrix(...): the triplets go through
\* the COO constructor, which raises ValueError when the shape cannot be
\* inferred (no triplets), when the three lists differ in length, or when an
\* index is negative
CooFails(II, JJ, dd) ==
    \/ Len(II) = 0
    \/ Len(JJ) = 0
    \/ Len(dd) /= Len(II)
    \/ Len(dd) /= Len(JJ)
    \/ \E q \in 1..Len(II) : II[q] < 0
    \/ \E q \in 1..Len(JJ) : JJ[q] < 0

\* with an explicit shape the indices must also lie inside it
CooShapeFails(II, JJ, dd, M, N) ==
    \/ Len(dd) /= Len(II)
    \/ Len(dd) /= Len(JJ)
    \/ \E q \in 1..Len(II) : II[q] < 0 \/ II[q] >= M
    \/ \E q \in 1..Len(JJ) : JJ[q] < 0 \/ JJ[q] >= N

RECURSIVE SeqMax(_)
SeqMax(s) == IF Len(s) = 1 THEN s[1]
             ELSE LET m == SeqMax(Tail(s)) IN IF s[1] > m THEN s[1] ELSE m

\* entry (r, col) of the assembled matrix: duplicate (row, column) triplets
\* are summed
RECURSIVE EntrySum(_, _, _, _, _, _)
EntrySum(II, JJ, dd, r, col, q) ==
    IF q = 0 THEN Zero
    ELSE IF II[q] = r /\ JJ[q] = col
         THEN RAdd(EntrySum(II, JJ, dd, r, col, q - 1), dd[q])
         ELSE EntrySum(II, JJ, dd, r, col, q - 1)

MatrixEntry(II, JJ, dd, r, col) == EntrySum(II, JJ, dd, r, col, Len(dd))

Dense(II, JJ, dd, M, N) ==
    [M |-> M, N |-> N,
     e |-> [rc \in (0..(M - 1)) \X (0..(N - 1)) |->
               MatrixEntry(II, JJ, dd, rc[1], rc[2])]]

\* shape inferred from the largest row and column index
CooMatrix(II, JJ, dd) == Dense(II, JJ, dd, SeqMax(II) + 1, SeqMax(JJ) + 1)

NoMatrix == [M |-> 0, N |-> 0, e |-> <<>>]

\* ------------------------------------------------------------------ state
VARIABLES
    prog,     \* which notebook program runs: "fdm", "per", "poisson", "coeff",
              \* "vn" or "padv"
    pc,       \* position in that function
    x, y,     \* grids (lists of coordinates)
    w,        \* stencil half-width
    n,        \* number of grid points (len(x), or the argument n)
    n_x, n_y, \* Poisson grid size
    dx, dy,   \* grid spacings
    c,        \* the periodic stencil coefficients
    i, j,     \* loop variables
    I, J, data, \* the triplet lists
    b,        \* Poisson right-hand side
    D,        \* the assembled sparse matrix
    demo,     \* the arrays of the array <-> vector demo cell
    u,        \* the solution vector of the Poisson system / the MOL iterate
    E,        \* the operands of the final error comparison
    calls,    \* the calls made so far: arguments and result of each
    mol,      \* the forward-Euler method-of-lines loop and its reduced form
    vn,       \* the von Neumann amplification factors
    xl, xu    \* the end points handed to periodic_grid

inputs == <<prog, x, y, w, n, n_x, n_y, dx, dy, xl, xu>>
vars == <<prog, pc, x, y, w, n, n_x, n_y, dx, dy, c, i, j, I, J, data, b, D,
          demo, u, E, calls, mol, vn, xl, xu>>

RECURSIVE SetToSeq(_)
SetToSeq(S) ==
    IF S = {} THEN <<>>
    ELSE LET m == CHOOSE a \in S : \A q \in S : a <= q
         IN  <<m>> \o SetToSeq(S \ {m})

\* the grids handed to first_deriv_matrix: strictly increasing coordinates,
\* uniform or not
Grids == {[q \in 1..Cardinality(S) |-> FromInt(SetToSeq(S)[q])] :
            S \in SUBSET (0..MaxCoord)}

\* -------------------------------------------------- first_deriv_matrix
\* p = (2*w+1)
StencilSize(ww) == 2 * ww + 1
\* a centered loop that runs one row too far: range(w, n-w)
CenteredStopInclusive(nn, ww) == nn - ww
\* range(w, n-w-1): the rows of the centered loop
CenteredStop(nn, ww) == nn - ww - 1
\* range(n-w-1, n): the rows of the left-biased loop
LeftStart(nn, ww) == nn - ww - 1

\* a right-biased node block that starts one grid point late
RightNodesShifted(xx, p) == PySlice(xx, 1, p + 1)
\* J.extend(range(p)) and the node block x[:p]
RightCols(p) == PyRange(0, p)
RightNodes(xx, p) == PySlice(xx, 0, p)
\* a centered node block listed from the right end to the left
CenteredNodesReversed(xx, ii, ww) ==
    [q \in 1..Len(PySlice(xx, ii - ww, ii + ww + 1)) |->
        PySlice(xx, ii - ww, ii + ww + 1)[Len(PySlice(xx, ii - ww, ii + ww + 1)) + 1 - q]]
\* a centered column window that forgets range's exclusive end
CenteredColsShort(ii, ww) == PyRange(ii - ww, ii + ww)
\* J.extend(range(i-w, i+w+1)) and the node block x[i-w:i+w+1]
CenteredCols(ii, ww) == PyRange(ii - ww, ii + ww + 1)
CenteredNodes(xx, ii, ww) == PySlice(xx, ii - ww, ii + ww + 1)
\* a left-biased window shifted one column past the grid
LeftColsShifted(nn, p) == PyRange(nn - p + 1, nn + 1)
\* a left-biased node block that always takes the first p nodes
LeftNodesFromStart(xx, nn, p) == PySlice(xx, 0, p)
\* J.extend(range(n-p, n)) and the node block x[n-p:]
LeftCols(nn, p) == PyRange(nn - p, nn)
LeftNodes(xx, nn, p) == PySlice(xx, nn - p, Len(xx))

InitFdm ==
    /\ prog = "fdm"
    /\ x \in Grids
    /\ w \in 0..MaxW
    /\ n = Len(x)
    /\ pc = "right"
    /\ i = 0
    /\ I = <<>> /\ J = <<>> /\ data = <<>>
    /\ y = <<>> /\ n_x = 0 /\ n_y = 0 /\ dx = Zero /\ dy = Zero
    /\ c = <<>> /\ j = 0 /\ b = <<>> /\ D = NoMatrix
    /\ demo = <<>> /\ u = <<>> /\ E = <<>>
    /\ calls = <<>> /\ mol = <<>> /\ vn = <<>>
    /\ xl = Zero /\ xu = Zero

\* the record of one call fd.fd_coeff(d, x0, nodes)
FdCall(d, x0, nodes) == [d |-> d, x0 |-> x0, nodes |-> nodes]

\* one iteration of a row loop: I and J are extended first, then fd_coeff is
\* evaluated at x[i] (IndexError when i is out of range) and data extended
EmitRow(cols, nodes) ==
    /\ I' = I \o PyRepeat(StencilSize(w), i)
    /\ J' = J \o cols
    /\ IF PyIndexFails(x, i) \/ fd_coeff_fails(1, PyIndex(x, i), nodes)
       THEN /\ pc' = "error"
            /\ UNCHANGED <<data, i>>
       ELSE /\ data' = data \o fd_coeff(1, PyIndex(x, i), nodes)
            /\ i' = i + 1
            /\ UNCHANGED pc
    /\ calls' = IF PyIndexFails(x, i) THEN calls
                ELSE Append(calls, FdCall(1, PyIndex(x, i), nodes))
    /\ UNCHANGED <<inputs, mol, vn, c, j, b, D, demo, u, E>>

\* for i in range(w): bias to the right until we can center
RightBiasedRow ==
    /\ prog = "fdm" /\ pc = "right" /\ i < w
    /\ EmitRow(RightCols(StencilSize(w)), RightNodes(x, StencilSize(w)))

RightLoopEnd ==
    /\ prog = "fdm" /\ pc = "right" /\ i >= w
    /\ pc' = "centered"
    /\ i' = w
    /\ UNCHANGED <<inputs, calls, mol, vn, c, j, I, J, data, b, D, demo, u, E>>

\* for i in range(w, n-w-1): centered differences
CenteredRow ==
    /\ prog = "fdm" /\ pc = "centered" /\ i < CenteredStop(n, w)
    /\ EmitRow(CenteredCols(i, w), CenteredNodes(x, i, w))

CenteredLoopEnd ==
    /\ prog = "fdm" /\ pc = "centered" /\ i >= CenteredStop(n, w)
    /\ pc' = "left"
    /\ i' = LeftStart(n, w)
    /\ UNCHANGED <<inputs, calls, mol, vn, c, j, I, J, data, b, D, demo, u, E>>

\* for i in range(n-w-1, n): bias to the left when we can't center anymore
LeftBiasedRow ==
    /\ prog = "fdm" /\ pc = "left" /\ i < n
    /\ EmitRow(LeftCols(n, StencilSize(w)), LeftNodes(x, n, StencilSize(w)))

\* return sp.csr_matrix((data, (I, J)))
ReturnMatrix ==
    /\ prog = "fdm" /\ pc = "left" /\ i >= n
    /\ IF CooFails(I, J, data)
       THEN pc' = "error" /\ D' = D
       ELSE pc' = "done" /\ D' = CooMatrix(I, J, data)
    /\ UNCHANGED <<inputs, calls, mol, vn, c, i, j, I, J, data, b, demo, u, E>>

\* ---------------------------------------------- first_deriv_matrix_per
\* dx*np.arange(-w, w+1)
PerNodes(h, ww) == [k \in 1..(2 * ww + 1) |-> RMul(h, FromInt(k - 1 - ww))]
\* a stencil asked for with derivative order 0 (interpolation weights)
PerCoeffOrderZero(h, ww) == fd_coeff(0, Zero, PerNodes(h, ww))
\* c = fd.fd_coeff(1, 0, dx*np.arange(-w, w+1))
PerCoeff(h, ww) == fd_coeff(1, Zero, PerNodes(h, ww))
\* a column list clamped to the grid instead of wrapped
PerColsClamped(ii, nn, ww) ==
    [k \in 1..(2 * ww + 1) |->
        IF ii + (k - 1 - ww) < 0 THEN 0
        ELSE IF ii + (k - 1 - ww) > nn - 1 THEN nn - 1
        ELSE ii + (k - 1 - ww)]
\* [(i+k)%n for k in range(-w, w+1)]
PerCols(ii, nn, ww) == [k \in 1..(2 * ww + 1) |-> (ii + (k - 1 - ww)) % nn]

InitPer ==
    /\ prog = "per"
    /\ n \in (-1)..MaxPerN
    /\ dx \in {FromInt(h) : h \in 1..MaxDx}
    /\ w \in 0..MaxW
    /\ pc = "coeff"
    /\ i = 0
    /\ I = <<>> /\ J = <<>> /\ data = <<>>
    /\ x = <<>> /\ y = <<>> /\ n_x = 0 /\ n_y = 0 /\ dy = Zero
    /\ c = <<>> /\ j = 0 /\ b = <<>> /\ D = NoMatrix
    /\ demo = <<>> /\ u = <<>> /\ E = <<>>
    /\ calls = <<>> /\ mol = <<>> /\ vn = <<>>
    /\ xl = Zero /\ xu = Zero

\* c = fd.fd_coeff(1, 0, dx*np.arange(-w, w+1))
PerStencil ==
    /\ prog = "per" /\ pc = "coeff"
    /\ IF fd_coeff_fails(1, Zero, PerNodes(dx, w))
       THEN pc' = "error" /\ c' = c
       ELSE pc' = "rows" /\ c' = PerCoeff(dx, w)
    /\ calls' = Append(calls, FdCall(1, Zero, PerNodes(dx, w)))
    /\ UNCHANGED <<inputs, mol, vn, i, j, I, J, data, b, D, demo, u, E>>

\* for i in range(n): one wrapped row
PerRow ==
    /\ prog = "per" /\ pc = "rows" /\ i < n
    /\ I' = I \o PyRepeat(StencilSize(w), i)
    /\ J' = J \o PerCols(i, n, w)
    /\ data' = data \o c
    /\ i' = i + 1
    /\ UNCHANGED <<inputs, calls, mol, vn, pc, c, j, b, D, demo, u, E>>

\* return sp.csc_matrix((data, (I, J)))
PerReturn ==
    /\ prog = "per" /\ pc = "rows" /\ i >= n
    /\ IF CooFails(I, J, data)
       THEN pc' = "error" /\ D' = D
       ELSE pc' = "done" /\ D' = CooMatrix(I, J, data)
    /\ UNCHANGED <<inputs, calls, mol, vn, c, i, j, I, J, data, b, demo, u, E>>

\* ------------------------------------------------ 2-D Poisson notebook
\* A.flatten(): the rows of a 2-D array one after the other
flatten(A) ==
    LET cols == IF Len(A) = 0 THEN 0 ELSE Len(A[1])
    IN  [k \in 1..(Len(A) * cols) |->
            A[((k - 1) \div cols) + 1][((k - 1) % cols) + 1]]
\* B.reshape(r, cols): row-major refill of an r x cols array
reshape(B, r, cols) ==
    [ii \in 1..r |-> [jj \in 1..cols |-> B[(ii - 1) * cols + jj]]]
\* X, Y = np.meshgrid(x, y)
meshgridX(xx, yy) == [ii \in 1..Len(yy) |-> [jj \in 1..Len(xx) |-> xx[jj]]]
meshgridY(xx, yy) == [ii \in 1..Len(yy) |-> [jj \in 1..Len(xx) |-> yy[ii]]]
X == meshgridX(x, y)
Y == meshgridY(x, y)
\* np.linspace(lo, lo + (m-1)*h, m)
linspace(lo, h, m) == [q \in 1..m |-> RAdd(lo, RMul(FromInt(q - 1), h))]

\* A = np.array([[1, 2, 3], [4, 5, 6]])
DemoArray == <<<<1, 2, 3>>, <<4, 5, 6>>>>

\* a flattening that swaps the roles of i and j
FlatIndexTransposed(ii, jj, nx) == jj * nx + ii
\* k = i*n_x + j
FlatIndex(ii, jj, nx) == ii * nx + jj

\* a boundary test that compares j with n_x instead of n_x-1
IsBoundaryOffByOne(ii, jj, nx, ny) ==
    ii = 0 \/ ii = ny - 1 \/ jj = 0 \/ jj = nx
\* if i == 0 or i == n_y-1 or j == 0 or j == n_x-1
IsBoundary(ii, jj, nx, ny) ==
    ii = 0 \/ ii = ny - 1 \/ jj = 0 \/ jj = nx - 1

\* a stencil whose vertical neighbours are taken one column too far
StencilColsSkewed(k, nx) == <<k - nx - 1, k - 1, k, k + 1, k + nx + 1>>
\* J.extend([k-n_x, k-1, k, k+1, k+n_x])
StencilCols(k, nx) == <<k - nx, k - 1, k, k + 1, k + nx>>
\* data.extend([1/dy**2, 1/dx**2, -2/dx**2 -2/dy**2, 1/dx**2, 1/dy**2])
StencilData(hx, hy) ==
    <<RDiv(One, RMul(hy, hy)),
      RDiv(One, RMul(hx, hx)),
      RSub(RDiv(FromInt(-2), RMul(hx, hx)), RDiv(FromInt(2), RMul(hy, hy))),
      RDiv(One, RMul(hx, hx)),
      RDiv(One, RMul(hy, hy))>>

\* sol(xj, yi) and f(xj, yi) are kept symbolic: the function and its point
SolAt(xj, yi) == <<"sol", xj, yi>>
FAt(xj, yi) == <<"f", xj, yi>>
\* b = np.zeros(n_unk)
ZeroRhs(m) == [k \in 1..m |-> <<"zero", Zero, Zero>>]
\* u = sla.spsolve(A, b): u[k] is the unknown of equation k, kept symbolic as
\* the grid point at which that equation's right-hand side was evaluated
spsolve(bb) == [k \in 1..Len(bb) |-> <<"u", bb[k][2], bb[k][3]>>]

InitPoisson ==
    /\ prog = "poisson"
    /\ n_x \in 2..MaxN
    /\ n_y \in 2..MaxN
    /\ \E lx, ly \in 1..MaxExtent :
          /\ dx = Rat(lx, n_x - 1)
          /\ dy = Rat(ly, n_y - 1)
    /\ x = linspace(FromInt(0), dx, n_x)
    /\ y = linspace(FromInt(1), dy, n_y)
    /\ b = ZeroRhs(n_x * n_y)
    /\ pc = "demo"
    /\ i = 0 /\ j = 0
    /\ I = <<>> /\ J = <<>> /\ data = <<>>
    /\ n = 0 /\ w = 0 /\ c = <<>> /\ D = NoMatrix
    /\ demo = <<>> /\ u = <<>> /\ E = <<>>
    /\ calls = <<>> /\ mol = <<>> /\ vn = <<>>
    /\ xl = Zero /\ xu = Zero

\* B = A.flatten(); B.reshape(2,3)
DemoCell ==
    /\ prog = "poisson" /\ pc = "demo"
    /\ demo' = [A |-> DemoArray, B |-> flatten(DemoArray),
                R |-> reshape(flatten(DemoArray), 2, 3)]
    /\ pc' = "assemble"
    /\ UNCHANGED <<inputs, calls, mol, vn, c, i, j, I, J, data, b, D, u, E>>

\* the loop variables after one pass of the inner loop body
NextPoint ==
    IF j + 1 < n_x THEN i' = i /\ j' = j + 1 ELSE i' = i + 1 /\ j' = 0

\* b[k] = value (IndexError when k is outside the vector)
StoreRhs(k, value) ==
    IF k >= Len(b)
    THEN pc' = "error" /\ b' = b
    ELSE pc' = pc /\ b' = [b EXCEPT ![k + 1] = value]

\* boundary point: a unit diagonal and the known boundary value
AssembleBoundary ==
    /\ prog = "poisson" /\ pc = "assemble" /\ i < n_y
    /\ IsBoundary(i, j, n_x, n_y)
    /\ LET k == FlatIndex(i, j, n_x)
       IN  /\ I' = Append(I, k)
           /\ J' = Append(J, k)
           /\ data' = Append(data, One)
           /\ StoreRhs(k, SolAt(PyIndex(x, j), PyIndex(y, i)))
    /\ NextPoint
    /\ UNCHANGED <<inputs, calls, mol, vn, c, D, demo, u, E>>

\* interior point: the 5-point stencil and the source term
AssembleInterior ==
    /\ prog = "poisson" /\ pc = "assemble" /\ i < n_y
    /\ ~IsBoundary(i, j, n_x, n_y)
    /\ LET k == FlatIndex(i, j, n_x)
       IN  /\ I' = I \o <<k, k, k, k, k>>
           /\ J' = J \o StencilCols(k, n_x)
           /\ data' = data \o StencilData(dx, dy)
           /\ StoreRhs(k, FAt(PyIndex(x, j), PyIndex(y, i)))
    /\ NextPoint
    /\ UNCHANGED <<inputs, calls, mol, vn, c, D, demo, u, E>>

\* A = sp.csr_matrix((data, (I,J)), (n_unk, n_unk))
BuildSystem ==
    /\ prog = "poisson" /\ pc = "assemble" /\ i >= n_y
    /\ IF CooShapeFails(I, J, data, n_x * n_y, n_x * n_y)
       THEN pc' = "error" /\ D' = D
       ELSE pc' = "solve" /\ D' = Dense(I, J, data, n_x * n_y, n_x * n_y)
    /\ UNCHANGED <<inputs, calls, mol, vn, c, i, j, I, J, data, b, demo, u, E>>

\* u = sla.spsolve(A, b)
SolveCell ==
    /\ prog = "poisson" /\ pc = "solve"
    /\ u' = spsolve(b)
    /\ pc' = "compare"
    /\ UNCHANGED <<inputs, calls, mol, vn, c, i, j, I, J, data, b, D, demo, E>>

\* u.reshape(n_y, n_x)-sol(X,Y): the two operands, entry by entry
ErrorCell ==
    /\ prog = "poisson" /\ pc = "compare"
    /\ E' = [ii \in 1..n_y |-> [jj \in 1..n_x |->
                <<reshape(u, n_y, n_x)[ii][jj], SolAt(X[ii][jj], Y[ii][jj])>>]]
    /\ pc' = "done"
    /\ UNCHANGED <<inputs, calls, mol, vn, c, i, j, I, J, data, b, D, demo, u>>

\* ------------------------------------------------ fd_coeff, called directly
\* node sets of a direct call: distinct, increasing, uniform or not
NodeSets == {[q \in 1..Cardinality(S) |-> FromInt(SetToSeq(S)[q])] :
               S \in SUBSET (0..MaxNode)}
\* evaluation points: the integers and half-integers of the node range
EvalPoints == {Rat(k, 2) : k \in 0..(2 * MaxNode)}

InitCoeff ==
    /\ prog = "coeff"
    /\ pc = "call"
    /\ x = <<>> /\ y = <<>> /\ w = 0 /\ n = 0 /\ n_x = 0 /\ n_y = 0
    /\ dx = Zero /\ dy = Zero /\ c = <<>> /\ i = 0 /\ j = 0
    /\ I = <<>> /\ J = <<>> /\ data = <<>> /\ b = <<>> /\ D = NoMatrix
    /\ demo = <<>> /\ u = <<>> /\ E = <<>>
    /\ calls = <<>> /\ mol = <<>> /\ vn = <<>>
    /\ xl = Zero /\ xu = Zero

\* c = fd.fd_coeff(d, x0, nodes)
CoeffCall ==
    /\ prog = "coeff" /\ pc = "call"
    /\ \E nodes \in NodeSets, d \in 0..MaxNode, x0 \in EvalPoints :
          /\ calls' = Append(calls, FdCall(d, x0, nodes))
          /\ IF fd_coeff_fails(d, x0, nodes)
             THEN pc' = "error" /\ c' = c
             ELSE pc' = "done" /\ c' = fd_coeff(d, x0, nodes)
    /\ UNCHANGED <<inputs, mol, vn, i, j, I, J, data, b, D, demo, u, E>>

\* ------------------------------------- the forward-Euler method of lines
\* D*u for a sparse matrix D and a vector u
RECURSIVE RowDot(_, _, _, _)
RowDot(A, v, r, q) ==
    IF q = 0 THEN Zero
    ELSE RAdd(RowDot(A, v, r, q - 1), RMul(A.e[<<r, q - 1>>], v[q]))
MatVec(A, v) == [r \in 1..A.M |-> RowDot(A, v, r - 1, A.N)] \o <<>>

\* x = np.arange(nx)*dx: the grid the matrix of the loop is built on
IsArange(xx) ==
    /\ Len(xx) >= 2
    /\ xx[1] = Zero
    /\ \A q \in 1..Len(xx) : xx[q] = RMul(FromInt(q - 1), xx[2])

\* the initial vectors eta: zero, or one at a single grid point
EtaSet(nn) == {[q \in 1..nn |-> IF q = k THEN One ELSE Zero] : k \in 0..nn}
\* the boundary data g(t_0), ..., g(t_num_iter) as a list
GSet == [1..(MaxSteps + 1) -> {Zero, One}]
\* the products a*dt
ADtSet == {One, Rat(1, 2)}

\* u = u - a*dt*D*u
EulerUpdate(A, v, adt) ==
    [q \in 1..Len(v) |-> RSub(v[q], RMul(adt, MatVec(A, v)[q]))]
\* u[0] = g(it*dt)
FixBoundary(v, gval) == [q \in 1..Len(v) |-> IF q = 1 THEN gval ELSE v[q]]

\* u = eta, with D = first_deriv_matrix(x, 1) at hand
EulerStart ==
    /\ prog = "fdm" /\ pc = "done" /\ w = 1 /\ IsArange(x)
    /\ D.M = n /\ D.N = n
    /\ \E eta \in EtaSet(n), g \in GSet, adt \in ADtSet :
          /\ mol' = [eta |-> eta, g |-> g, adt |-> adt, num_iter |-> MaxSteps,
                     it |-> 1, prev |-> eta]
          /\ u' = eta
    /\ pc' = "euler"
    /\ UNCHANGED <<inputs, calls, vn, c, i, j, I, J, data, b, D, demo, E>>

\* one pass of: for it in range(1, num_iter+1)
EulerStep ==
    /\ prog = "fdm" /\ pc = "euler" /\ mol.it <= mol.num_iter
    /\ u' = FixBoundary(EulerUpdate(D, u, mol.adt), mol.g[mol.it + 1])
    /\ mol' = [mol EXCEPT !.it = mol.it + 1, !.prev = u]
    /\ UNCHANGED <<inputs, pc, calls, vn, c, i, j, I, J, data, b, D, demo, E>>

EulerEnd ==
    /\ prog = "fdm" /\ pc = "euler" /\ mol.it > mol.num_iter
    /\ pc' = "iterated"
    /\ UNCHANGED <<inputs, calls, mol, vn, c, i, j, I, J, data, b, D, demo, u, E>>

\* D = D[1:,1:]
DropFirstRowCol(A) ==
    [M |-> A.M - 1, N |-> A.N - 1,
     e |-> [rc \in (0..(A.M - 2)) \X (0..(A.N - 2)) |->
               A.e[<<rc[1] + 1, rc[2] + 1>>]]]

\* ------------------------------------------- von Neumann analysis demos
\* complex numbers as pairs <<real part, imaginary part>> of rationals
Complex(re, im) == <<re, im>>
CAdd(z1, z2) == <<RAdd(z1[1], z2[1]), RAdd(z1[2], z2[2])>>
CSub(z1, z2) == <<RSub(z1[1], z2[1]), RSub(z1[2], z2[2])>>
CMul(z1, z2) ==
    <<RSub(RMul(z1[1], z2[1]), RMul(z1[2], z2[2])),
      RAdd(RMul(z1[1], z2[2]), RMul(z1[2], z2[1]))>>
CScale(r, z) == <<RMul(r, z[1]), RMul(r, z[2])>>
CReal(r) == <<r, Zero>>

\* an angle theta is kept as the point (cos theta, sin theta); the angles
\* taken from [0, 2*pi] are ones whose point has rational coordinates
Thetas ==
    {<<One, Zero>>, <<Zero, One>>, <<RNeg(One), Zero>>, <<Zero, RNeg(One)>>,
     <<Rat(3, 5), Rat(4, 5)>>, <<Rat(-4, 5), Rat(3, 5)>>}
\* np.exp(1j*theta) and np.exp(-1j*theta)
ExpI(theta) == Complex(theta[1], theta[2])
ExpMinusI(theta) == Complex(theta[1], RNeg(theta[2]))

\* return (1-np.exp(-1j*theta))
lambda_minus(theta) == CSub(CReal(One), ExpMinusI(theta))
\* return (np.exp(1j*theta)-1)
lambda_plus(theta) == CSub(ExpI(theta), CReal(One))
\* return tau*lambda_minus(theta) + (1-tau)*lambda_plus(theta)
lambda_tau(tau, theta) ==
    CAdd(CScale(tau, lambda_minus(theta)),
         CScale(RSub(One, tau), lambda_plus(theta)))

\* the parameters of the demos: a, dx, dt and tau
ASet == {One, FromInt(2), Rat(9, 5)}
DxSet == {One, Rat(1, 2)}
DtSet == {One, FromInt(2), Rat(1, 2)}
TauSet == {Zero, Rat(1, 2), Rat(7, 10), One}

\* dt = (dx/a)*(2*tau-1)
FeTimeStep(a, h, tau) ==
    RMul(RDiv(h, a), RSub(RMul(FromInt(2), tau), One))
\* g = 1 - (a*dt/dx)*lambda_tau(tau, theta)
FeFactor(a, dt, h, tau, theta) ==
    CSub(CReal(One), CScale(RDiv(RMul(a, dt), h), lambda_tau(tau, theta)))
\* g = 1 - (a*dt/dx)*lambda_tau(tau, theta)
\*       + (a**2*dt**3)/(2*dx**2)*lambda_tau(tau, theta)**2
Rk2Factor(a, dt, h, tau, theta) ==
    CAdd(FeFactor(a, dt, h, tau, theta),
         CScale(RDiv(RMul(RMul(a, a), RMul(dt, RMul(dt, dt))),
                     RMul(FromInt(2), RMul(h, h))),
                CMul(lambda_tau(tau, theta), lambda_tau(tau, theta))))

InitVn ==
    /\ prog = "vn"
    /\ pc = "demo"
    /\ x = <<>> /\ y = <<>> /\ w = 0 /\ n = 0 /\ n_x = 0 /\ n_y = 0
    /\ dx = Zero /\ dy = Zero /\ c = <<>> /\ i = 0 /\ j = 0
    /\ I = <<>> /\ J = <<>> /\ data = <<>> /\ b = <<>> /\ D = NoMatrix
    /\ demo = <<>> /\ u = <<>> /\ E = <<>>
    /\ calls = <<>> /\ mol = <<>> /\ vn = <<>>
    /\ xl = Zero /\ xu = Zero

\* fe_vn_demo(), at one sample theta
fe_vn_demo ==
    /\ prog = "vn" /\ pc = "demo"
    /\ \E a \in ASet, h \in DxSet, tau \in TauSet, theta \in Thetas :
          LET dt == FeTimeStep(a, h, tau)
          IN  vn' = [fn |-> "fe", a |-> a, dx |-> h, dt |-> dt, tau |-> tau,
                     theta |-> theta, g |-> FeFactor(a, dt, h, tau, theta)]
    /\ pc' = "done"
    /\ UNCHANGED <<inputs, calls, mol, c, i, j, I, J, data, b, D, demo, u, E>>

\* rk2_vn_demo(), at one sample theta
rk2_vn_demo ==
    /\ prog = "vn" /\ pc = "demo"
    /\ \E a \in ASet, h \in DxSet, dt \in DtSet, tau \in TauSet,
          theta \in Thetas :
          vn' = [fn |-> "rk2", a |-> a, dx |-> h, dt |-> dt, tau |-> tau,
                 theta |-> theta, g |-> Rk2Factor(a, dt, h, tau, theta)]
    /\ pc' = "done"
    /\ UNCHANGED <<inputs, calls, mol, c, i, j, I, J, data, b, D, demo, u, E>>

\* R = 1 + Zf + Zf**2/2
Rk2Stability(z) ==
    CAdd(CAdd(CReal(One), z), CScale(Rat(1, 2), CMul(z, z)))

\* ------------------------------------------- periodic_advection_demo
\* a grid that divides the period into n+1 steps, leaving a double gap at
\* the wrap
periodic_grid_open(lo, hi, nn) ==
    [q \in 1..nn |->
        RAdd(lo, RMul(FromInt(q - 1), RDiv(RSub(hi, lo), FromInt(nn + 1))))]
\* dx = (xu-xl)/n; return xl + np.arange(n)*dx
periodic_grid(lo, hi, nn) ==
    [q \in 1..nn |->
        RAdd(lo, RMul(FromInt(q - 1), RDiv(RSub(hi, lo), FromInt(nn))))]

InitPadv ==
    /\ prog = "padv"
    /\ pc = "grid"
    /\ n \in 0..MaxGridN
    /\ xl \in {FromInt(-1), Zero, Rat(1, 2)}
    /\ \E L \in 1..MaxPeriod : xu = RAdd(xl, FromInt(L))
    /\ x = <<>> /\ y = <<>> /\ w = 0 /\ n_x = 0 /\ n_y = 0
    /\ dx = Zero /\ dy = Zero /\ c = <<>> /\ i = 0 /\ j = 0
    /\ I = <<>> /\ J = <<>> /\ data = <<>> /\ b = <<>> /\ D = NoMatrix
    /\ demo = <<>> /\ u = <<>> /\ E = <<>>
    /\ calls = <<>> /\ mol = <<>> /\ vn = <<>>

\* x = periodic_grid(-L/2, L/2, nx): ZeroDivisionError when nx is 0
PeriodicGrid ==
    /\ prog = "padv" /\ pc = "grid"
    /\ IF n = 0
       THEN pc' = "error" /\ x' = x
       ELSE pc' = "spacing" /\ x' = periodic_grid(xl, xu, n)
    /\ UNCHANGED <<prog, y, w, n, n_x, n_y, dx, dy, xl, xu, calls, mol, vn,
                   c, i, j, I, J, data, b, D, demo, u, E>>

\* dx = x[1] - x[0]: IndexError on a grid of one point
DemoSpacing ==
    /\ prog = "padv" /\ pc = "spacing"
    /\ IF PyIndexFails(x, 1) \/ PyIndexFails(x, 0)
       THEN pc' = "error" /\ dx' = dx
       ELSE pc' = "matrix" /\ dx' = RSub(PyIndex(x, 1), PyIndex(x, 0))
    /\ UNCHANGED <<prog, x, y, w, n, n_x, n_y, dy, xl, xu, calls, mol, vn,
                   c, i, j, I, J, data, b, D, demo, u, E>>

\* for w in range(1,6): D = first_deriv_matrix_per(nx, dx, w), one call
DemoMatrix ==
    /\ prog = "padv" /\ pc = "matrix"
    /\ w' \in 1..MaxW
    /\ prog' = "per"
    /\ pc' = "coeff"
    /\ i' = 0
    /\ UNCHANGED <<x, y, n, n_x, n_y, dx, dy, xl, xu, calls, mol, vn,
                   c, j, I, J, data, b, D, demo, u, E>>

Init == InitFdm \/ InitPer \/ InitPoisson \/ InitCoeff \/ InitVn \/ InitPadv

Next ==
    \/ RightBiasedRow
    \/ RightLoopEnd
    \/ CenteredRow
    \/ CenteredLoopEnd
    \/ LeftBiasedRow
    \/ ReturnMatrix
    \/ PerStencil
    \/ PerRow
    \/ PerReturn
    \/ DemoCell
    \/ AssembleBoundary
    \/ AssembleInterior
    \/ BuildSystem
    \/ SolveCell
    \/ ErrorCell
    \/ CoeffCall
    \/ EulerStart
    \/ EulerStep
    \/ EulerEnd
    \/ fe_vn_demo
    \/ rk2_vn_demo
    \/ PeriodicGrid
    \/ DemoSpacing
    \/ DemoMatrix

Spec == Init /\ [][Next]_vars

\* ------------------------------------------- properties: first_deriv_matrix
\* the positions of row r in the triplet lists
RowPositions(r) == {q \in 1..Len(I) : I[q] = r}
RowColumns(r) == {J[q] : q \in RowPositions(r)}
Min(a, k) == IF a < k THEN a ELSE k
Max(a, k) == IF a > k THEN a ELSE k

\* row r holds exactly the 2w+1 columns first..first+2w, and the coefficient
\* stored at each column is the one fd_coeff(1, x[r], x[first..first+2w])
\* gives for the node at that column
RowIsStencil(r, first) ==
    /\ Len(J) = Len(I)
    /\ Cardinality(RowPositions(r)) = 2 * w + 1
    /\ RowColumns(r) = first..(first + 2 * w)
    /\ \A q \in RowPositions(r) :
          q <= Len(data) =>
            data[q] = fd_coeff(1, x[r + 1],
                         [k \in 1..(2 * w + 1) |-> x[first + k]])[J[q] - first + 1]

\* C1: with n = len(x) >= 2w+1, every interior row w <= r <= n-w-1 of
\* first_deriv_matrix holds the centered stencil: columns r-w..r+w with the
\* coefficients fd_coeff(1, x[r], x[r-w..r+w]); the returned matrix has every
\* such row
C1_CenteredInterior ==
    (prog = "fdm" /\ n >= 2 * w + 1) =>
        \A r \in w..(n - w - 1) :
            /\ RowPositions(r) /= {} => RowIsStencil(r, r - w)
            /\ pc = "done" =>
                  /\ RowPositions(r) /= {}
                  /\ \A col \in 0..(n - 1) :
                        (col < r - w \/ col > r + w) => D.e[<<r, col>>] = Zero

NonUniform == \E q \in 2..(n - 1) : RSub(x[q + 1], x[q]) /= RSub(x[2], x[1])

C1_Witness ==
    /\ prog = "fdm" /\ pc = "done" /\ w = 2 /\ n = 6 /\ NonUniform
    /\ RowIsStencil(2, 0) /\ RowIsStencil(3, 1)

\* C2: with n >= 2w+1 every emitted row r uses the contiguous window of 2w+1
\* real grid columns starting at min(max(r-w, 0), n-2w-1): no column lies
\* outside 0..n-1 and the window contains column r
WindowStart(r) == Min(Max(r - w, 0), n - 2 * w - 1)

C2_BiasedWindows ==
    (prog = "fdm" /\ n >= 2 * w + 1) =>
        /\ Len(J) = Len(I)
        /\ \A q \in 1..Len(J) : J[q] >= 0 /\ J[q] <= n - 1
        /\ \A r \in 0..(n - 1) :
              /\ RowPositions(r) /= {} =>
                    /\ RowIsStencil(r, WindowStart(r))
                    /\ r \in RowColumns(r)
                    /\ r < w => RowColumns(r) = 0..(2 * w)
                    /\ r > n - w - 1 => RowColumns(r) = (n - 2 * w - 1)..(n - 1)
              /\ pc = "done" => RowPositions(r) /= {}

C2_Witness ==
    /\ prog = "fdm" /\ pc = "done" /\ w = 2 /\ n = 6 /\ NonUniform
    /\ RowColumns(0) = 0..4 /\ RowColumns(1) = 0..4
    /\ RowColumns(4) = 1..5 /\ RowColumns(5) = 1..5

\* C3: with n >= 2w+1 and w >= 1 the three loops (rows 0..w-1, then
\* w..n-w-2, then n-w-1..n-1) emit every row 0..n-1 exactly once and in
\* order, each with 2w+1 entries and no repeated (row, column) pair, the call
\* returns, and the inferred shape is n x n
C3_SquareShape ==
    (prog = "fdm" /\ n >= 2 * w + 1 /\ w >= 1) =>
        /\ pc /= "error"
        /\ Len(I) = Len(J)
        /\ \A q \in 1..Len(I) : I[q] = (q - 1) \div (2 * w + 1)
        /\ pc = "right" => Len(I) <= w * (2 * w + 1)
        /\ pc = "centered" => Len(I) <= (n - w - 1) * (2 * w + 1)
        /\ \A q1, q2 \in 1..Len(I) :
              (I[q1] = I[q2] /\ J[q1] = J[q2]) => q1 = q2
        /\ \A r \in 0..(n - 1) :
              Cardinality(RowPositions(r)) \in {0, 2 * w + 1}
        /\ pc = "done" =>
              /\ \A r \in 0..(n - 1) : Cardinality(RowPositions(r)) = 2 * w + 1
              /\ Len(I) = n * (2 * w + 1)
              /\ Len(data) = Len(I)
              /\ D.M = n /\ D.N = n

C3_Witness ==
    prog = "fdm" /\ pc = "done" /\ w = 2 /\ n = 6 /\ D.M = 6 /\ D.N = 6

\* C4 (as claimed): on a grid with fewer than 2w+1 points first_deriv_matrix
\* reports an error and never emits a row twice, a column index >= len(x),
\* or a coefficient list whose length differs from its index lists
C4_RejectsShortGrid ==
    (prog = "fdm" /\ n < 2 * w + 1) =>
        /\ pc /= "done"
        /\ pc /= "error" =>
              /\ \A r \in 0..(n - 1) :
                    Cardinality(RowPositions(r)) <= 2 * w + 1
              /\ \A q \in 1..Len(J) : J[q] < n
              /\ Len(data) = Len(I)

\* C10: on an equispaced grid with spacing h and w = 1 the returned matrix is
\* the one printed in the notebook: row 0 is (-3/2, 2, -1/2)/h on columns
\* 0..2, interior rows are (-1/2, 0, 1/2)/h on columns r-1..r+1, the last
\* row is (1/2, -2, 3/2)/h on columns n-3..n-1, and all else is zero
Equispaced == \A q \in 2..(n - 1) : RSub(x[q + 1], x[q]) = RSub(x[2], x[1])
Spacing == RSub(x[2], x[1])
Over(num, den) == RDiv(Rat(num, den), Spacing)

NotebookMatrix(r, col) ==
    IF r = 0 THEN
        CASE col = 0 -> Over(-3, 2) [] col = 1 -> Over(2, 1)
          [] col = 2 -> Over(-1, 2) [] OTHER -> Zero
    ELSE IF r = n - 1 THEN
        CASE col = n - 3 -> Over(1, 2) [] col = n - 2 -> Over(-2, 1)
          [] col = n - 1 -> Over(3, 2) [] OTHER -> Zero
    ELSE
        CASE col = r - 1 -> Over(-1, 2) [] col = r + 1 -> Over(1, 2)
          [] OTHER -> Zero

C10_NotebookMatrix ==
    (prog = "fdm" /\ w = 1 /\ n >= 3 /\ Equispaced /\ pc = "done") =>
        /\ D.M = n /\ D.N = n
        /\ \A r \in 0..(n - 1) : \A col \in 0..(n - 1) :
              D.e[<<r, col>>] = NotebookMatrix(r, col)

C10_Witness ==
    /\ prog = "fdm" /\ w = 1 /\ n = 4 /\ Equispaced /\ pc = "done"
    /\ Spacing = FromInt(2)
    /\ D.e[<<0, 0>>] = Rat(-3, 4) /\ D.e[<<3, 3>>] = Rat(3, 4)

\* --------------------------------------- properties: first_deriv_matrix_per
\* the centered stencil fd_coeff(1, 0, dx*[-w..w]), written out node by node
CenteredStencil ==
    fd_coeff(1, Zero, [k \in 1..(2 * w + 1) |-> RMul(dx, FromInt(k - 1 - w))])

\* C5: in first_deriv_matrix_per, for every emitted row r and offset k in
\* -w..w the coefficient c[k+w] of the single centered stencil is stored at
\* column (r+k) mod n, and the returned matrix is n x n and circulant:
\* entry (r, col) equals entry ((r+1) mod n, (col+1) mod n)
C5_PeriodicWrap ==
    (prog = "per" /\ pc \in {"rows", "done"}) =>
        /\ c = CenteredStencil
        /\ Len(I) = i * (2 * w + 1) /\ Len(J) = Len(I) /\ Len(data) = Len(I)
        /\ \A r \in 0..(i - 1) : \A k \in (-w)..w :
              LET q == r * (2 * w + 1) + k + w + 1
              IN  /\ I[q] = r
                  /\ J[q] = (r + k) % n
                  /\ data[q] = CenteredStencil[k + w + 1]
        /\ pc = "done" =>
              /\ i = n /\ D.M = n /\ D.N = n
              /\ \A r \in 0..(n - 1) : \A col \in 0..(n - 1) :
                    D.e[<<r, col>>] = D.e[<<(r + 1) % n, (col + 1) % n>>]

C5_Witness ==
    /\ prog = "per" /\ pc = "done" /\ n = 6 /\ w = 2 /\ dx = FromInt(2)
    /\ D.e[<<0, 4>>] = Rat(1, 24) /\ D.e[<<5, 1>>] = Rat(-1, 24)

\* the sum of row r of the returned matrix
RECURSIVE RowSum(_, _)
RowSum(r, col) ==
    IF col < 0 THEN Zero ELSE RAdd(RowSum(r, col - 1), D.e[<<r, col>>])

\* C6: the periodic operator applied to a constant vector gives zero: every
\* row of the returned matrix sums to zero, for any w, also when wrapped
\* columns of one row coincide and their coefficients are summed
C6_ConstantNullspace ==
    (prog = "per" /\ pc = "done") =>
        \A r \in 0..(D.M - 1) : RowSum(r, D.N - 1) = Zero

\* a returned operator whose wrapped columns collide (n < 2w+1)
C6_Witness ==
    /\ prog = "per" /\ pc = "done" /\ n = 3 /\ w = 2
    /\ D.M = 3 /\ D.N = 3
    /\ RowSum(0, 2) = Zero
    /\ \E col \in 0..2 : D.e[<<0, col>>] /= Zero

\* C7 (as claimed): first_deriv_matrix_per with w >= n/2 (n < 2w+1) or a
\* non-positive n fails with an error instead of returning a matrix
C7_RejectsInvalidGrid ==
    (prog = "per" /\ (n < 2 * w + 1 \/ n <= 0)) => pc /= "done"

\* ------------------------------------------------ properties: 2-D Poisson
\* the grid points the assembly loop has already passed
Visited(ii, jj) == ii < i \/ (ii = i /\ jj < j)
\* the triplets of row k, as (column, coefficient) pairs
RowTriplets(k) == {<<J[q], data[q]>> : q \in RowPositions(k)}

\* C8: for every grid point (ii, jj) the loop has passed, with
\* k = ii*n_x + jj: a boundary point gives row k the single coefficient 1 on
\* the diagonal and b[k] = sol(x[jj], y[ii]); any other point gives row k
\* exactly the 5-point stencil 1/dy^2 at k-n_x and k+n_x, 1/dx^2 at k-1 and
\* k+1, -2/dx^2 - 2/dy^2 at k, and b[k] = f(x[jj], y[ii]); rows not yet
\* reached are empty, so every row is filled exactly once
C8_PoissonRows ==
    (prog = "poisson" /\ pc /= "demo") =>
        /\ pc /= "error"
        /\ Len(I) = Len(J) /\ Len(I) = Len(data)
        /\ \A ii \in 0..(n_y - 1) : \A jj \in 0..(n_x - 1) :
              LET k == ii * n_x + jj
                  onEdge == ii = 0 \/ ii = n_y - 1 \/ jj = 0 \/ jj = n_x - 1
                  ex == RDiv(One, RMul(dx, dx))
                  ey == RDiv(One, RMul(dy, dy))
                  mid == RSub(RNeg(RAdd(ex, ex)), RAdd(ey, ey))
              IN  IF ~Visited(ii, jj)
                  THEN RowPositions(k) = {} /\ b[k + 1][1] = "zero"
                  ELSE IF onEdge
                  THEN /\ Cardinality(RowPositions(k)) = 1
                       /\ RowTriplets(k) = {<<k, One>>}
                       /\ b[k + 1] = <<"sol", x[jj + 1], y[ii + 1]>>
                  ELSE /\ Cardinality(RowPositions(k)) = 5
                       /\ RowTriplets(k) =
                            {<<k - n_x, ey>>, <<k + n_x, ey>>, <<k - 1, ex>>,
                             <<k + 1, ex>>, <<k, mid>>}
                       /\ b[k + 1] = <<"f", x[jj + 1], y[ii + 1]>>
        /\ pc \in {"solve", "compare", "done"} =>
              /\ i = n_y /\ D.M = n_x * n_y /\ D.N = n_x * n_y
              /\ \A k \in 0..(n_x * n_y - 1) : \A col \in 0..(n_x * n_y - 1) :
                    D.e[<<k, col>>] =
                        IF \E t \in RowTriplets(k) : t[1] = col
                        THEN (CHOOSE t \in RowTriplets(k) : t[1] = col)[2]
                        ELSE Zero

\* an assembled 4 x 3 system with interior rows k = 5 and k = 6
C8_Witness ==
    /\ prog = "poisson" /\ pc = "solve" /\ n_x = 4 /\ n_y = 3
    /\ dx = Rat(2, 3) /\ dy = Rat(1, 2)
    /\ D.e[<<5, 5>>] = Rat(-25, 2) /\ D.e[<<5, 1>>] = FromInt(4)
    /\ D.e[<<5, 4>>] = Rat(9, 4) /\ D.e[<<4, 4>>] = One
    /\ b[7] = <<"f", Rat(4, 3), Rat(3, 2)>>

\* C9: k = i*n_x + j maps the index pairs 0 <= i < n_y, 0 <= j < n_x one to
\* one onto 0..n_x*n_y-1; flatten followed by reshape returns the demo array;
\* and the same layout is used by the solve and error cells:
\* u.reshape(n_y, n_x)[i][j] is the unknown of row k, located at
\* (x[j], y[i]) = (X[i][j], Y[i][j]), the point sol(X, Y) is evaluated at
C9_RowMajorLayout ==
    prog = "poisson" =>
        /\ \A ii \in 0..(n_y - 1) : \A jj \in 0..(n_x - 1) :
              /\ FlatIndex(ii, jj, n_x) \in 0..(n_x * n_y - 1)
              /\ \A i2 \in 0..(n_y - 1) : \A j2 \in 0..(n_x - 1) :
                    FlatIndex(ii, jj, n_x) = FlatIndex(i2, j2, n_x)
                        => (ii = i2 /\ jj = j2)
              /\ X[ii + 1][jj + 1] = x[jj + 1]
              /\ Y[ii + 1][jj + 1] = y[ii + 1]
              /\ (pc /= "error" /\ Visited(ii, jj)) =>
                    /\ b[ii * n_x + jj + 1][2] = x[jj + 1]
                    /\ b[ii * n_x + jj + 1][3] = y[ii + 1]
              /\ pc \in {"compare", "done"} =>
                    /\ u[ii * n_x + jj + 1] = <<"u", x[jj + 1], y[ii + 1]>>
                    /\ reshape(u, n_y, n_x)[ii + 1][jj + 1] =
                          <<"u", X[ii + 1][jj + 1], Y[ii + 1][jj + 1]>>
              /\ pc = "done" =>
                    E[ii + 1][jj + 1] =
                        << <<"u", x[jj + 1], y[ii + 1]>>,
                           <<"sol", x[jj + 1], y[ii + 1]>> >>
        /\ pc /= "demo" =>
              /\ demo.B = <<1, 2, 3, 4, 5, 6>>
              /\ demo.R = demo.A
        /\ pc \in {"compare", "done"} => flatten(reshape(u, n_y, n_x)) = u

\* the error cell has run on a non-square grid
C9_Witness ==
    /\ prog = "poisson" /\ pc = "done" /\ n_x = 4 /\ n_y = 3
    /\ E[2][4] = << <<"u", x[4], y[2]>>, <<"sol", x[4], y[2]>> >>
    /\ u[8] = <<"u", x[4], y[2]>>
    /\ demo.R = <<<<1, 2, 3>>, <<4, 5, 6>>>>

\* ----------------------------------------------------- properties: fd_coeff
RECURSIVE RPow(_, _)
RPow(a, k) == IF k = 0 THEN One ELSE RMul(a, RPow(a, k - 1))

\* the d-th derivative of t^k at x0: k!/(k-d)! * x0^(k-d)
MonomialDeriv(k, d, x0) ==
    IF k < d THEN Zero
    ELSE RMul(FromInt(Factorial(k) \div Factorial(k - d)), RPow(x0, k - d))

\* sum over q of coef[q] * pts[q]^k: the weights applied to the samples of t^k
RECURSIVE ApplyToMonomial(_, _, _, _)
ApplyToMonomial(coef, pts, k, q) ==
    IF q = 0 THEN Zero
    ELSE RAdd(ApplyToMonomial(coef, pts, k, q - 1),
              RMul(coef[q], RPow(pts[q], k)))

\* the weights differentiate every monomial t^k, k < Len(pts), exactly; by
\* linearity the same holds for every polynomial of degree < Len(pts)
ExactOnPolynomials(coef, pts, d, x0) ==
    /\ Len(coef) = Len(pts)
    /\ \A k \in 0..(Len(pts) - 1) :
          ApplyToMonomial(coef, pts, k, Len(pts)) = MonomialDeriv(k, d, x0)

\* the grid points of the columns of row r, and its coefficients, in the
\* order stored
RowPoints(r) ==
    [q \in 1..(2 * w + 1) |-> x[J[r * (2 * w + 1) + q] + 1]]
RowCoefficients(r) ==
    [q \in 1..(2 * w + 1) |-> data[r * (2 * w + 1) + q]]

\* C11: the coefficients fd_coeff(d, x0, nodes) of m distinct nodes, d <= m-1,
\* applied to the samples of a polynomial of degree <= m-1 give its exact
\* d-th derivative at x0, for uniform and non-uniform nodes; and every row
\* first_deriv_matrix stores (n >= 2w+1), boundary rows with their one-sided
\* blocks included, differentiates such polynomials sampled at the grid
\* points of its columns exactly at x[r]
C11_PolynomialExactness ==
    /\ (prog = "coeff" /\ pc = "done") =>
          ExactOnPolynomials(c, calls[1].nodes, calls[1].d, calls[1].x0)
    /\ (prog = "fdm" /\ n >= 2 * w + 1 /\ pc \in {"right", "centered", "left", "done"}) =>
          /\ Len(J) = Len(I) /\ Len(data) = Len(I)
          /\ \A r \in 0..(n - 1) :
                r * (2 * w + 1) < Len(data) =>
                    ExactOnPolynomials(RowCoefficients(r), RowPoints(r), 1,
                                       x[r + 1])

\* a second derivative on five non-uniform nodes, evaluated between nodes
C11_Witness ==
    /\ prog = "coeff" /\ pc = "done"
    /\ calls[1].d = 2 /\ calls[1].x0 = Rat(3, 2)
    /\ calls[1].nodes = <<FromInt(0), FromInt(1), FromInt(3), FromInt(4)>>
    /\ ApplyToMonomial(c, calls[1].nodes, 3, 4) = FromInt(9)

\* ------------------------------------- properties: forward-Euler iteration
\* b^j: a*dt/(2dx)*g(t_j) in the first entry and zeros elsewhere
BoundaryTerm(len, adt, gval) ==
    [q \in 1..len |->
        IF q = 1 THEN RMul(RDiv(adt, RMul(FromInt(2), x[2])), gval) ELSE Zero]

\* U~^j - a dt D~ U~^j + b^j
ReducedStep(red, adt, gval) ==
    [q \in 1..Len(red) |->
        RAdd(RSub(red[q], RMul(adt, MatVec(DropFirstRowCol(D), red)[q])),
             BoundaryTerm(Len(red), adt, gval)[q])]

\* the iterate with its first entry dropped
Interior(v) == [q \in 1..(Len(v) - 1) |-> v[q + 1]]

\* the step index j of the last completed step U^j -> U^{j+1}
LastStep == mol.it - 2

\* C12: every step j >= 0 of the forward-Euler loop, the first included,
\* agrees with the reduced iteration U~^{j+1} = U~^j - a dt D~ U~^j + b^j;
\* U_0^{j+1} = g(t_{j+1}) and
\* U_1^{j+1} = U_1^j - a dt/(2dx) (U_2^j - g(t_j))
C12_ReducedIteration ==
    (prog = "fdm" /\ pc \in {"euler", "iterated"} /\ mol.it >= 2) =>
        /\ u[1] = mol.g[LastStep + 2]
        /\ u[2] = RSub(mol.prev[2],
                       RMul(RDiv(mol.adt, RMul(FromInt(2), x[2])),
                            RSub(mol.prev[3], mol.g[LastStep + 1])))
        /\ Interior(u) = ReducedStep(Interior(mol.prev), mol.adt,
                                     mol.g[LastStep + 1])

\* --------------------------------- properties: stencil and column alignment
\* x0 is one of the nodes
AmongNodes(x0, nodes) == \E q \in 1..Len(nodes) : nodes[q] = x0

\* row r of first_deriv_matrix: the call that produced it was made at x[r] on
\* 2w+1 nodes, node q is the grid point of the q-th column stored, and the
\* q-th value stored is the q-th coefficient of that call
FdmRowAligned(r) ==
    LET call == calls[r + 1]
        base == r * (2 * w + 1)
    IN  /\ call.d = 1
        /\ call.x0 = x[r + 1]
        /\ Len(call.nodes) = 2 * w + 1
        /\ AmongNodes(call.x0, call.nodes)
        /\ \A q \in 1..(2 * w + 1) :
              /\ I[base + q] = r
              /\ J[base + q] \in 0..(n - 1)
              /\ x[J[base + q] + 1] = call.nodes[q]
              /\ data[base + q] = fd_coeff(call.d, call.x0, call.nodes)[q]

\* row r of first_deriv_matrix_per: the one call was made at offset 0, node q
\* is the offset (q-1-w)*dx, and the q-th coefficient is stored at the column
\* of the grid point that offset leads to from point r, wrapped
PerRowAligned(r) ==
    LET call == calls[1]
        base == r * (2 * w + 1)
    IN  /\ call.d = 1
        /\ call.x0 = Zero
        /\ Len(call.nodes) = 2 * w + 1
        /\ AmongNodes(call.x0, call.nodes)
        /\ \A q \in 1..(2 * w + 1) :
              /\ I[base + q] = r
              /\ J[base + q] \in 0..(n - 1)
              /\ \E k \in (-w)..w :
                    /\ call.nodes[q] = RMul(dx, FromInt(k))
                    /\ J[base + q] = (r + k) % n
              /\ data[base + q] = fd_coeff(call.d, call.x0, call.nodes)[q]

\* C14: in every row emitted by first_deriv_matrix (n >= 2w+1) and by
\* first_deriv_matrix_per the q-th coefficient fd_coeff returned is stored at
\* the column whose grid point is the q-th node passed; I, J and data have
\* equal length; and the evaluation point (x[i], or offset 0) is one of the
\* nodes passed
C14_StencilColumnOrder ==
    /\ (prog = "fdm" /\ n >= 2 * w + 1 /\ pc \in {"right", "centered", "left", "done"}) =>
          /\ Len(J) = Len(I) /\ Len(data) = Len(I)
          /\ Len(data) = Len(calls) * (2 * w + 1)
          /\ \A r \in 0..(Len(calls) - 1) : FdmRowAligned(r)
    /\ (prog = "per" /\ pc \in {"rows", "done"}) =>
          /\ Len(J) = Len(I) /\ Len(data) = Len(I)
          /\ Len(calls) = 1
          /\ \A r \in 0..(n - 1) :
                r * (2 * w + 1) < Len(data) => PerRowAligned(r)

\* a complete matrix on a non-uniform grid with w = 2, and a complete periodic
\* matrix whose rows wrap
C14_Witness ==
    \/ /\ prog = "fdm" /\ pc = "done" /\ w = 2 /\ n = 6
       /\ x[2] = FromInt(1) /\ x[3] = FromInt(3)
       /\ Len(calls) = 6 /\ Len(data) = 30
       /\ calls[6].nodes = <<x[2], x[3], x[4], x[5], x[6]>>
    \/ /\ prog = "per" /\ pc = "done" /\ w = 2 /\ n = 5
       /\ Len(data) = 25 /\ J[1] = 3 /\ J[25] = 1

\* ------------------------------------- properties: Poisson stencil columns
\* the grid point (row, column) a flattened index stands for
GridRow(k) == k \div n_x
GridCol(k) == k % n_x
IsInterior(k) ==
    /\ GridRow(k) \in 1..(n_y - 2)
    /\ GridCol(k) \in 1..(n_x - 2)

\* the off-diagonal columns stored for row k
OffDiagonal(k) == {J[q] : q \in {p \in RowPositions(k) : J[p] /= k}}

\* the four geometric neighbours of the grid point of k
Neighbours(k) ==
    {<<GridRow(k) - 1, GridCol(k)>>, <<GridRow(k), GridCol(k) - 1>>,
     <<GridRow(k), GridCol(k) + 1>>, <<GridRow(k) + 1, GridCol(k)>>}

IsIdentity(A) ==
    \A rc \in DOMAIN A.e : A.e[rc] = IF rc[1] = rc[2] THEN One ELSE Zero

\* C15: for every interior point the loop has passed, the off-diagonal columns
\* k-n_x, k-1, k+1, k+n_x lie in 0..n_x*n_y-1 and are the flattened indices of
\* the neighbours (i-1,j), (i,j-1), (i,j+1), (i+1,j), k-1 and k+1 staying in
\* the grid row of k; no (row, column) pair is stored twice; and with
\* n_x <= 2 or n_y <= 2 no point is interior and the matrix is the identity
C15_NeighbourColumns ==
    (prog = "poisson" /\ pc /= "demo") =>
        /\ pc /= "error"
        /\ Len(J) = Len(I)
        /\ \A k \in 0..(n_x * n_y - 1) :
              (IsInterior(k) /\ Visited(GridRow(k), GridCol(k))) =>
                  /\ OffDiagonal(k) = {k - n_x, k - 1, k + 1, k + n_x}
                  /\ \A col \in OffDiagonal(k) : col \in 0..(n_x * n_y - 1)
                  /\ {<<GridRow(col), GridCol(col)>> : col \in OffDiagonal(k)}
                        = Neighbours(k)
                  /\ GridRow(k - 1) = GridRow(k) /\ GridRow(k + 1) = GridRow(k)
        /\ \A p, q \in 1..Len(I) :
              (I[p] = I[q] /\ J[p] = J[q]) => p = q
        /\ (n_x <= 2 \/ n_y <= 2) =>
              /\ \A k \in 0..(n_x * n_y - 1) : ~IsInterior(k)
              /\ \A q \in 1..Len(I) : J[q] = I[q]
              /\ pc \in {"solve", "compare", "done"} =>
                    /\ D.M = n_x * n_y /\ D.N = n_x * n_y
                    /\ IsIdentity(D)

\* a 4 x 4 grid whose four interior rows are assembled
C15_Witness ==
    /\ prog = "poisson" /\ pc = "solve" /\ n_x = 4 /\ n_y = 4
    /\ OffDiagonal(5) = {1, 4, 6, 9}
    /\ OffDiagonal(10) = {6, 9, 11, 14}
    /\ Len(I) = 12 + 4 * 5

\* ------------------------------------ properties: amplification factors
\* z = -(a*dt/dx)*lambda
StabilityArgument ==
    CScale(RNeg(RDiv(RMul(vn.a, vn.dt), vn.dx)), lambda_tau(vn.tau, vn.theta))

\* C16: for every a, dt, dx and lambda the factor g of rk2_vn_demo equals
\* R(z) = 1 + z + z^2/2 at z = -(a dt/dx) lambda, as the factor of fe_vn_demo
\* equals 1 + z
C16_FactorIsStabilityFunction ==
    (prog = "vn" /\ pc = "done") =>
        /\ vn.fn = "fe" => vn.g = CAdd(CReal(One), StabilityArgument)
        /\ vn.fn = "rk2" => vn.g = Rk2Stability(StabilityArgument)

\* ------------------------------------------- properties: periodic grid
RLess(r, s) == r[1] * s[2] < s[1] * r[2]

\* the spacing (xu-xl)/n of the periodic grid
GridStep == RDiv(RSub(xu, xl), FromInt(n))

\* the grid point reached from point r by the offset k*dx, brought back into
\* the period by whole periods xu-xl
WrappedPoint(r, k) ==
    RSub(RAdd(x[r + 1], RMul(FromInt(k), dx)),
         RMul(FromInt((r + k) \div n), RSub(xu, xl)))

\* C17: periodic_grid(xl, xu, n) returns exactly n points xl + q*dx,
\* q = 0..n-1, dx = (xu-xl)/n: the first is xl, xu is not among them, and the
\* gap from the last point round to xl + (xu-xl) is dx again; with that dx the
\* column (i+k) mod n of first_deriv_matrix_per(n, dx, w) is the grid point
\* at offset k*dx from point i, up to whole periods
C17_PeriodicGrid ==
    /\ (prog = "padv" /\ pc \in {"spacing", "matrix"}) =>
          /\ Len(x) = n
          /\ x[1] = xl
          /\ \A q \in 0..(n - 1) :
                /\ x[q + 1] = RAdd(xl, RMul(FromInt(q), GridStep))
                /\ RLess(x[q + 1], xu)
          /\ \A q \in 1..(n - 1) : RSub(x[q + 1], x[q]) = GridStep
          /\ RSub(xu, x[n]) = GridStep
          /\ pc = "matrix" => dx = GridStep
    /\ (prog = "per" /\ Len(x) > 0 /\ pc \in {"coeff", "rows", "done"}) =>
          /\ Len(x) = n /\ dx = GridStep
          /\ Len(J) = Len(I)
          /\ \A p \in 1..Len(J) :
                LET r == (p - 1) \div (2 * w + 1)
                    k == ((p - 1) % (2 * w + 1)) - w
                IN  /\ I[p] = r
                    /\ J[p] \in 0..(n - 1)
                    /\ x[J[p] + 1] = WrappedPoint(r, k)

\* three points on [-1, 1): the matrix of the demo with w = 1, whose first and
\* last rows wrap
C17_Witness ==
    /\ prog = "per" /\ pc = "done" /\ w = 1 /\ n = 3
    /\ xl = FromInt(-1) /\ xu = One
    /\ x = <<FromInt(-1), Rat(-1, 3), Rat(1, 3)>>
    /\ dx = Rat(2, 3)
    /\ J[1] = 2 /\ J[9] = 0

====
